---------------------------- MODULE Spec2Model ----------------------------
(***************************************************************************)
(* Model of app.py: a Streamlit page that gates on a Groq API key, builds   *)
(* a cached Groq client and runs a two-stage prompt chain (question         *)
(* generation, then analysis) against the chat-completions endpoint.        *)
(*                                                                          *)
(* Streamlit executes the whole script once per browser session each time   *)
(* a widget of that session changes.  One execution is a "script run"; its  *)
(* position is pc[s].  os.environ and the st.cache_resource cache belong to *)
(* the server process and are shared by every session.                      *)
(*                                                                          *)
(* Python strings are sequences of one-character strings; the fixed parts   *)
(* of a prompt or message are single tokens.                                *)
(***************************************************************************)
EXTENDS Naturals, Sequences, FiniteSets

(* ------------------------------ bounds --------------------------------- *)
MaxKeyLen == 1
MaxTextLen == 1

KeyChars == {" ", "a", "b"}
TextChars == {"x", "y"}

StringsUpTo(chars, n) == UNION {[1..k -> chars] : k \in 0..n}

Keys == StringsUpTo(KeyChars, MaxKeyLen)
Texts == StringsUpTo(TextChars, MaxTextLen)

Sessions == {"s1", "s2"}
Browser == {"s1"}
SessionKeys == {<<>>, <<"a">>, <<"b">>}
SessionTexts == {<<>>, <<"x">>}

ClientErrors == {"TypeError"}
RequestErrors == {"APIConnectionError", "AuthenticationError"}

(* --------------------------- Python values ----------------------------- *)
None == <<>>
Some(x) == <<x>>
Get(o) == o[1]

\* variant: the test "str is not None", which every text_input value passes
TruthyNotNone(str) == TRUE

\* bool(str): a Python string is falsy exactly when it is empty
Truthy(str) == Len(str) > 0

\* str.isspace() or empty: nothing but blanks
IsBlank(str) == \A i \in 1..Len(str) : str[i] = " "

\* needle in hay
Contains(hay, needle) ==
    \E i \in 0..(Len(hay) - Len(needle)) :
        SubSeq(hay, i + 1, i + Len(needle)) = needle

\* str(e) of an exception: its message, one token
ExcStr(e) == <<e>>

(* ------------------------------ state ---------------------------------- *)
VARIABLES
    pc,              \* position of the session's script run
    groq_api_key,    \* sidebar text_input value (line 50)
    api_keys_valid,  \* line 57
    query,           \* topic text_input value (line 140)
    clicked,         \* st.button value of the current script run (line 145)
    groq_client,     \* local of main (line 125)
    questions,       \* local of main (line 160)
    display,         \* elements the current script run has put on the page
    environ,         \* os.environ["GROQ_API_KEY"], process-wide
    cache,           \* st.cache_resource entry of initialize_groq, process-wide
    requests,        \* requests the endpoint received from the current run
    responses        \* responses the endpoint returned to the current run

vars == <<pc, groq_api_key, api_keys_valid, query, clicked, groq_client,
          questions, display, environ, cache, requests, responses>>

Element(id, kind, body) == [id |-> id, kind |-> kind, body |-> body]

Model == "deepseek-r1-distill-llama-70b"
NOT_GIVEN == "NOT_GIVEN"

Init ==
    /\ pc = [s \in Sessions |-> "closed"]
    /\ groq_api_key = [s \in Sessions |-> <<>>]
    /\ api_keys_valid = [s \in Sessions |-> FALSE]
    /\ query = [s \in Sessions |-> <<>>]
    /\ clicked = [s \in Sessions |-> FALSE]
    /\ groq_client = [s \in Sessions |-> None]
    /\ questions = [s \in Sessions |-> None]
    /\ display = [s \in Sessions |-> <<>>]
    /\ environ = None
    /\ cache = None
    /\ requests = [s \in Sessions |-> <<>>]
    /\ responses = [s \in Sessions |-> <<>>]


(* ------------------------- request construction ------------------------ *)
\* lines 152-155: the stage-1 message content
question_prompt(topic) ==
    <<"Suggest a list of 5 most important questions to research on the topic: ">>
        \o topic

\* variant: the stage-2 template without the {questions} placeholder
research_prompt_no_questions(topic, qs) ==
    <<"Based on these questions about ">> \o topic \o <<":<LF>">>
        \o <<"<LF><LF>Please provide a comprehensive research analysis ... throughout.">>

\* lines 165-182: the stage-2 message content
research_prompt(topic, qs) ==
    <<"Based on these questions about ">> \o topic \o <<":<LF>">> \o qs
        \o <<"<LF><LF>Please provide a comprehensive research analysis ... throughout.">>

\* lines 148-159: chat.completions.create(messages=[...], model=...)
Stage1Request(client, topic) ==
    [api_key |-> client.api_key,
     messages |-> <<[role |-> "user", content |-> question_prompt(topic)]>>,
     model |-> Model,
     temperature |-> NOT_GIVEN]

\* variant: the stage-2 call without its temperature argument
Stage2RequestDefaultTemperature(client, topic, qs) ==
    [api_key |-> client.api_key,
     messages |-> <<[role |-> "user", content |-> research_prompt(topic, qs)]>>,
     model |-> Model,
     temperature |-> NOT_GIVEN]

\* lines 184-193: chat.completions.create(messages=[...], model=..., temperature=0.6)
Stage2Request(client, topic, qs) ==
    [api_key |-> client.api_key,
     messages |-> <<[role |-> "user", content |-> research_prompt(topic, qs)]>>,
     model |-> Model,
     temperature |-> "0.6"]

\* what the endpoint can hand back to one create() call: a completion with
\* one choice, a completion with no choices, or a raised API error
Completion(text) == [kind |-> "completion", content |-> text, exc |-> ""]
NoChoices == [kind |-> "no_choices", content |-> <<>>, exc |-> ""]
Raised(e) == [kind |-> "raised", content |-> <<>>, exc |-> e]
Responses(TT) ==
    {Completion(t) : t \in TT} \cup {NoChoices} \cup {Raised(e) : e \in RequestErrors}

Last(seq) == seq[Len(seq)]

(* ------------------------- user interactions --------------------------- *)
\* A widget change makes Streamlit run the script again from line 1 with a
\* clean page; the locals of the previous run are gone.
Rerun(s, click) ==
    /\ pc' = [pc EXCEPT ![s] = "sidebar"]
    /\ clicked' = [clicked EXCEPT ![s] = click]
    /\ groq_client' = [groq_client EXCEPT ![s] = None]
    /\ questions' = [questions EXCEPT ![s] = None]
    /\ display' = [display EXCEPT ![s] = <<>>]
    /\ requests' = [requests EXCEPT ![s] = <<>>]
    /\ responses' = [responses EXCEPT ![s] = <<>>]
    /\ UNCHANGED <<api_keys_valid, environ, cache>>

\* the topic input and the button exist on the page only if the last run
\* got past line 125
FormRendered(s) == groq_client[s] # None

\* a browser opens the page: first script run, widgets at their defaults
Connect(s) ==
    /\ pc[s] = "closed"
    /\ Rerun(s, FALSE)
    /\ UNCHANGED <<groq_api_key, query>>

\* the user types into the sidebar key field (line 50)
EnterKey(s, k) ==
    /\ pc[s] = "done"
    /\ k # groq_api_key[s]
    /\ groq_api_key' = [groq_api_key EXCEPT ![s] = k]
    /\ Rerun(s, FALSE)
    /\ UNCHANGED query

\* the user types into the topic field (line 140)
EnterTopic(s, t) ==
    /\ pc[s] = "done"
    /\ FormRendered(s)
    /\ t # query[s]
    /\ query' = [query EXCEPT ![s] = t]
    /\ Rerun(s, FALSE)
    /\ UNCHANGED groq_api_key

\* the user presses the button (line 145)
ClickButton(s) ==
    /\ pc[s] = "done"
    /\ FormRendered(s)
    /\ Rerun(s, TRUE)
    /\ UNCHANGED <<groq_api_key, query>>

(* ----------------------------- script run ------------------------------ *)
\* variant: the handler replaces the page by the error notice
ExceptClearsPage(s, page, e) ==
    /\ display' = [display EXCEPT ![s] =
            <<Element("error", "error", <<"Error occurred: ">> \o ExcStr(e))>>]
    /\ pc' = [pc EXCEPT ![s] = "done"]

\* variant: the handler swallows the exception without a notice
ExceptSilent(s, page, e) ==
    /\ display' = [display EXCEPT ![s] = page]
    /\ pc' = [pc EXCEPT ![s] = "done"]

\* lines 198-199: except Exception as e: st.error(...); page is what the
\* run has written when the exception is raised
Except(s, page, e) ==
    /\ display' = [display EXCEPT ![s] =
            Append(page, Element("error", "error", <<"Error occurred: ">> \o ExcStr(e)))]
    /\ pc' = [pc EXCEPT ![s] = "done"]

\* lines 57-64: key validation and export to the process environment
Sidebar(s) ==
    /\ pc[s] = "sidebar"
    /\ IF Truthy(groq_api_key[s])
       THEN /\ api_keys_valid' = [api_keys_valid EXCEPT ![s] = TRUE]
            /\ environ' = Some([value |-> groq_api_key[s], by |-> s])
            /\ UNCHANGED display
       ELSE /\ api_keys_valid' = [api_keys_valid EXCEPT ![s] = FALSE]
            /\ display' = [display EXCEPT ![s] =
                    Append(@, Element("key_warning", "warning", <<"Please enter the required API Key">>))]
            /\ UNCHANGED environ
    /\ pc' = [pc EXCEPT ![s] = "main"]
    /\ UNCHANGED <<groq_api_key, query, clicked, groq_client, questions, cache,
                   requests, responses>>

\* lines 121-122: no key, main returns; the topic widget is not rendered in
\* this run, so Streamlit drops its value
MainReturn(s) ==
    /\ pc[s] = "main"
    /\ ~Truthy(groq_api_key[s])
    /\ pc' = [pc EXCEPT ![s] = "done"]
    /\ query' = [query EXCEPT ![s] = <<>>]
    /\ UNCHANGED <<groq_api_key, api_keys_valid, clicked, groq_client, questions,
                   display, environ, cache, requests, responses>>

\* line 114: groq.Groq(api_key=os.environ["GROQ_API_KEY"])
NewClient(s) ==
    [api_key |-> Get(environ).value, env_by |-> Get(environ).by, made_by |-> s]

\* lines 112-114: the memoized value if there is one, else a new client
\* which is then memoized (no arguments, so one entry for the process)
initialize_groq(s) == IF cache # None THEN Get(cache) ELSE NewClient(s)

\* line 125, the call returns
InitializeGroq(s) ==
    /\ pc[s] = "main"
    /\ Truthy(groq_api_key[s])
    /\ groq_client' = [groq_client EXCEPT ![s] = Some(initialize_groq(s))]
    /\ cache' = Some(initialize_groq(s))
    /\ pc' = [pc EXCEPT ![s] = "form"]
    /\ UNCHANGED <<groq_api_key, api_keys_valid, query, clicked, questions,
                   display, environ, requests, responses>>

\* line 125, the constructor raises on a cache miss: nothing is memoized,
\* the handler of line 198 runs, the topic widget is not rendered
InitializeGroqRaises(s, e) ==
    /\ pc[s] = "main"
    /\ Truthy(groq_api_key[s])
    /\ cache = None
    /\ Except(s, display[s], e)
    /\ query' = [query EXCEPT ![s] = <<>>]
    /\ UNCHANGED <<groq_api_key, api_keys_valid, clicked, groq_client, questions,
                   environ, cache, requests, responses>>

\* variant: the button starts stage 1 without the "if query" test
FormNoTopicCheck(s) ==
    /\ pc[s] = "form"
    /\ pc' = [pc EXCEPT ![s] = IF clicked[s] THEN "stage1" ELSE "done"]
    /\ UNCHANGED <<groq_api_key, api_keys_valid, query, clicked, groq_client,
                   questions, display, environ, cache, requests, responses>>

\* lines 140-147 and 196-197: the form, the button and the topic check
Form(s) ==
    /\ pc[s] = "form"
    /\ IF clicked[s]
       THEN IF Truthy(query[s])
            THEN /\ pc' = [pc EXCEPT ![s] = "stage1"]
                 /\ UNCHANGED display
            ELSE /\ display' = [display EXCEPT ![s] =
                        Append(@, Element("topic_warning", "warning", <<"Please enter a research topic">>))]
                 /\ pc' = [pc EXCEPT ![s] = "done"]
       ELSE /\ pc' = [pc EXCEPT ![s] = "done"]
            /\ UNCHANGED display
    /\ UNCHANGED <<groq_api_key, api_keys_valid, query, clicked, groq_client,
                   questions, environ, cache, requests, responses>>

\* line 148: the stage-1 request leaves
Stage1Send(s) ==
    /\ pc[s] = "stage1"
    /\ requests' = [requests EXCEPT ![s] =
            Append(@, Stage1Request(Get(groq_client[s]), query[s]))]
    /\ pc' = [pc EXCEPT ![s] = "wait1"]
    /\ UNCHANGED <<groq_api_key, api_keys_valid, query, clicked, groq_client,
                   questions, display, environ, cache, responses>>

\* the endpoint answers the outstanding create() call
EndpointRespond(s, r) ==
    /\ pc[s] \in {"wait1", "wait2"}
    /\ responses' = [responses EXCEPT ![s] = Append(@, r)]
    /\ pc' = [pc EXCEPT ![s] = IF pc[s] = "wait1" THEN "recv1" ELSE "recv2"]
    /\ UNCHANGED <<groq_api_key, api_keys_valid, query, clicked, groq_client,
                   questions, display, environ, cache, requests>>

\* variant: a stage-1 failure is caught inside the stage and the run goes on
\* to stage 2 with empty questions
Stage1ReceiveContinues(s) ==
    /\ pc[s] = "recv1"
    /\ LET r == Last(responses[s]) IN
       IF r.kind = "completion"
       THEN /\ questions' = [questions EXCEPT ![s] = Some(r.content)]
            /\ display' = [display EXCEPT ![s] =
                    @ \o <<Element("questions_heading", "write", <<"### Research questions:">>),
                           Element("questions", "write", r.content)>>]
       ELSE /\ questions' = [questions EXCEPT ![s] = Some(<<>>)]
            /\ UNCHANGED display
    /\ pc' = [pc EXCEPT ![s] = "stage2"]
    /\ UNCHANGED <<groq_api_key, api_keys_valid, query, clicked, groq_client,
                   environ, cache, requests, responses>>

\* lines 148-162: create() returns or raises; choices[0] is read (line 160)
\* before anything is written to the page
Stage1Receive(s) ==
    /\ pc[s] = "recv1"
    /\ LET r == Last(responses[s]) IN
       IF r.kind = "completion"
       THEN /\ questions' = [questions EXCEPT ![s] = Some(r.content)]
            /\ display' = [display EXCEPT ![s] =
                    @ \o <<Element("questions_heading", "write", <<"### Research questions:">>),
                           Element("questions", "write", r.content)>>]
            /\ pc' = [pc EXCEPT ![s] = "stage2"]
       ELSE /\ Except(s, display[s], IF r.kind = "raised" THEN r.exc ELSE "IndexError")
            /\ UNCHANGED questions
    /\ UNCHANGED <<groq_api_key, api_keys_valid, query, clicked, groq_client,
                   environ, cache, requests, responses>>

\* lines 165-184: the stage-2 prompt is built and the request leaves
Stage2Send(s) ==
    /\ pc[s] = "stage2"
    /\ requests' = [requests EXCEPT ![s] =
            Append(@, Stage2Request(Get(groq_client[s]), query[s], Get(questions[s])))]
    /\ pc' = [pc EXCEPT ![s] = "wait2"]
    /\ UNCHANGED <<groq_api_key, api_keys_valid, query, clicked, groq_client,
                   questions, display, environ, cache, responses>>

\* variant: a failed stage-2 call is tried again
Stage2ReceiveRetries(s) ==
    /\ pc[s] = "recv2"
    /\ LET r == Last(responses[s])
           heading == Element("analysis_heading", "write", <<"### Research results:">>)
       IN
       IF r.kind = "completion"
       THEN /\ display' = [display EXCEPT ![s] =
                    @ \o <<heading, Element("analysis", "write", r.content)>>]
            /\ pc' = [pc EXCEPT ![s] = "done"]
       ELSE /\ pc' = [pc EXCEPT ![s] = "stage2"]
            /\ UNCHANGED display
    /\ UNCHANGED <<groq_api_key, api_keys_valid, query, clicked, groq_client,
                   questions, environ, cache, requests, responses>>

\* lines 184-195: create() returns or raises; the heading (line 194) is
\* written before choices[0] is read (line 195)
Stage2Receive(s) ==
    /\ pc[s] = "recv2"
    /\ LET r == Last(responses[s])
           heading == Element("analysis_heading", "write", <<"### Research results:">>)
       IN
       CASE r.kind = "completion" ->
                /\ display' = [display EXCEPT ![s] =
                        @ \o <<heading, Element("analysis", "write", r.content)>>]
                /\ pc' = [pc EXCEPT ![s] = "done"]
         [] r.kind = "no_choices" -> Except(s, Append(display[s], heading), "IndexError")
         [] r.kind = "raised" -> Except(s, display[s], r.exc)
    /\ UNCHANGED <<groq_api_key, api_keys_valid, query, clicked, groq_client,
                   questions, environ, cache, requests, responses>>

(* --------------------------- specifications ---------------------------- *)
Step(s, KK, TT) ==
    \/ Connect(s)
    \/ \E k \in KK : EnterKey(s, k)
    \/ \E t \in TT : EnterTopic(s, t)
    \/ ClickButton(s)
    \/ Sidebar(s)
    \/ MainReturn(s)
    \/ InitializeGroq(s)
    \/ \E e \in ClientErrors : InitializeGroqRaises(s, e)
    \/ Form(s)
    \/ Stage1Send(s)
    \/ \E r \in Responses(TT) : EndpointRespond(s, r)
    \/ Stage1Receive(s)
    \/ Stage2Send(s)
    \/ Stage2Receive(s)

\* one browser session, every key and text within the bounds
Next == \E s \in Browser : Step(s, Keys, Texts)

Spec == Init /\ [][Next]_vars

\* two browser sessions on the same server process
NextSessions == \E s \in Sessions : Step(s, SessionKeys, SessionTexts)

SpecSessions == Init /\ [][NextSessions]_vars

TypeOK ==
    /\ pc \in [Sessions -> {"closed", "sidebar", "main", "form", "stage1", "wait1",
                            "recv1", "stage2", "wait2", "recv2", "done"}]
    /\ \A s \in Sessions : Len(requests[s]) <= 2

(* ------------------------------ properties ---------------------------- *)
\* what a finished or running script run has put on the page
Count(s, id) == Cardinality({i \in DOMAIN display[s] : display[s][i].id = id})
Shown(s, id) == {display[s][i].body : i \in {j \in DOMAIN display[s] : display[s][j].id = id}}
Content(req) == req.messages[1].content

Stage1Failed(s) ==
    Len(responses[s]) >= 1 /\ responses[s][1].kind # "completion"
Stage2Failed(s) ==
    Len(responses[s]) = 2 /\ responses[s][2].kind # "completion"
BothSucceeded(s) ==
    /\ Len(responses[s]) = 2
    /\ responses[s][1].kind = "completion"
    /\ responses[s][2].kind = "completion"

\* C1: when the stage-1 request fails, the endpoint receives exactly one
\* request in that run, stage 2 is never started, and the run ends with one
\* error notice and neither questions nor analysis on the page.
C1_Stage1FailureStopsRun ==
    \A s \in Sessions :
        Stage1Failed(s) =>
            /\ Len(requests[s]) = 1
            /\ pc[s] \in {"recv1", "done"}
            /\ pc[s] = "done" =>
                   /\ Count(s, "error") = 1
                   /\ Count(s, "questions") = 0
                   /\ Count(s, "analysis") = 0

C1_Witness ==
    \E s \in Sessions :
        /\ pc[s] = "done"
        /\ Stage1Failed(s)
        /\ Count(s, "error") = 1

C3_ChainVerbatim ==
    \A s \in Sessions :
        (pc[s] = "done" /\ BothSucceeded(s)) =>
            /\ Truthy(query[s])
            /\ Count(s, "questions") = 1
            /\ Shown(s, "questions") = {responses[s][1].content}
            /\ Count(s, "analysis") = 1
            /\ Shown(s, "analysis") = {responses[s][2].content}
            /\ Count(s, "error") = 0
            /\ Len(requests[s]) = 2
            /\ Contains(Content(requests[s][2]), query[s])
            /\ Contains(Content(requests[s][2]), responses[s][1].content)

C3_Witness ==
    \E s \in Sessions :
        /\ pc[s] = "done"
        /\ BothSucceeded(s)
        /\ Truthy(responses[s][1].content)
        /\ Truthy(responses[s][2].content)
        /\ responses[s][1].content # query[s]
        /\ responses[s][1].content # responses[s][2].content
        /\ Contains(Content(requests[s][2]), responses[s][1].content)

\* C4 (as claimed): with a key that is empty or only blanks, the readiness
\* flag is false, the run obtains no client and issues no request.
C4_BlankKeyNeverReady ==
    \A s \in Sessions :
        (IsBlank(groq_api_key[s]) /\ pc[s] \notin {"closed", "sidebar"}) =>
            /\ ~api_keys_valid[s]
            /\ groq_client[s] = None
            /\ requests[s] = <<>>

\* C4 (amended): with an empty key, the readiness flag is false, the run
\* stops at the gate, obtains no client and issues no request.
C4_EmptyKeyNeverReady ==
    \A s \in Sessions :
        (groq_api_key[s] = <<>> /\ pc[s] \notin {"closed", "sidebar"}) =>
            /\ ~api_keys_valid[s]
            /\ pc[s] \in {"main", "done"}
            /\ groq_client[s] = None
            /\ requests[s] = <<>>
            /\ Count(s, "key_warning") = 1

C4_Witness ==
    \E s \in Sessions :
        /\ pc[s] = "done"
        /\ groq_api_key[s] = <<>>
        /\ cache # None
        /\ groq_client[s] = None
        /\ ~api_keys_valid[s]

\* C5: a run started by the button with an empty topic and a key present
\* issues no request, and the topic warning is the only element on the page
\* when it ends.
C5_EmptyTopicOnlyWarns ==
    \A s \in Sessions :
        (clicked[s] /\ query[s] = <<>> /\ Truthy(groq_api_key[s])) =>
            /\ requests[s] = <<>>
            /\ pc[s] \in {"sidebar", "main", "form", "done"}
            /\ pc[s] = "done" =>
                   display[s] = <<Element("topic_warning", "warning",
                                          <<"Please enter a research topic">>)>>

C5_Witness ==
    \E s \in Sessions :
        /\ pc[s] = "done"
        /\ clicked[s]
        /\ query[s] = <<>>
        /\ Truthy(groq_api_key[s])
        /\ Count(s, "topic_warning") = 1

\* a failure was raised in the run: the client constructor raised (key
\* present, no client obtained) or a create() call did not yield a choice
RaisedInRun(s) ==
    \/ Truthy(groq_api_key[s]) /\ groq_client[s] = None
    \/ \E i \in DOMAIN responses[s] : responses[s][i].kind # "completion"

CompleteResult(s) == Count(s, "questions") = 1 /\ Count(s, "analysis") = 1

\* C6: a finished run never shows more than one failure report and never a
\* complete result together with one; a run in which anything raised shows
\* exactly one failure report with the exception's message; a run that
\* reached the endpoint shows a complete result or a failure report.
C6_OneOutcome ==
    \A s \in Sessions :
        pc[s] = "done" =>
            /\ Count(s, "error") <= 1
            /\ ~(CompleteResult(s) /\ Count(s, "error") = 1)
            /\ RaisedInRun(s) =>
                   /\ Count(s, "error") = 1
                   /\ \A b \in Shown(s, "error") : Len(b) = 2 /\ b[2] # ""
            /\ requests[s] # <<>> => (CompleteResult(s) \/ Count(s, "error") = 1)
            /\ Count(s, "error") = 1 => RaisedInRun(s)

C6_Witness ==
    \E s \in Sessions :
        /\ pc[s] = "done"
        /\ Truthy(groq_api_key[s])
        /\ groq_client[s] = None
        /\ Count(s, "error") = 1

\* C7: a run issues at most two requests, never has more than one request
\* outstanding, the first is the stage-1 request, and a second request
\* exists only once the first has returned a completion, from whose text it
\* is built.
C7_AtMostOnePerStageInOrder ==
    \A s \in Sessions :
        /\ Len(requests[s]) <= 2
        /\ Len(responses[s]) <= Len(requests[s])
        /\ Len(requests[s]) <= Len(responses[s]) + 1
        /\ Len(requests[s]) >= 1 =>
               Content(requests[s][1]) = question_prompt(query[s])
        /\ Len(requests[s]) = 2 =>
               /\ responses[s][1].kind = "completion"
               /\ Content(requests[s][2]) =
                      research_prompt(query[s], responses[s][1].content)

C7_Witness ==
    \E s \in Sessions :
        /\ pc[s] = "wait2"
        /\ Len(requests[s]) = 2
        /\ Len(responses[s]) = 1

\* C8: the first request of a run carries no temperature, the second carries
\* temperature 0.6, and both name the model deepseek-r1-distill-llama-70b.
C8_RequestParameters ==
    \A s \in Sessions :
        \A i \in DOMAIN requests[s] :
            /\ requests[s][i].model = "deepseek-r1-distill-llama-70b"
            /\ i = 1 => requests[s][i].temperature = "NOT_GIVEN"
            /\ i = 2 => requests[s][i].temperature = "0.6"

C8_Witness ==
    \E s \in Sessions :
        /\ Len(requests[s]) = 2
        /\ requests[s][1].temperature # requests[s][2].temperature

\* C9: a session's run only ever holds a client that its own run built from
\* the environment value its own run wrote.
C9_SessionsIsolated ==
    \A s \in Sessions :
        groq_client[s] # None =>
            /\ Get(groq_client[s]).made_by = s
            /\ Get(groq_client[s]).env_by = s

\* C10: every request of a run is issued with the key currently entered in
\* that session.
C10_ClientUsesCurrentKey ==
    \A s \in Sessions :
        \A i \in DOMAIN requests[s] :
            requests[s][i].api_key = groq_api_key[s]

=============================================================================
